---- MODULE Spec2Model ----
(***************************************************************************)
(* The manipulate plugin of FlexGet (flexget/plugins/modify/manipulate.py): *)
(* on_task_start compiles the configured rule items into per-phase job      *)
(* lists, the three phase handlers run process() on every entry, and        *)
(* process() applies remove / extract / replace / assign to each            *)
(* destination field of each job item.                                      *)
(*                                                                          *)
(* Text is a sequence of one-character strings.  A field value is a record  *)
(* [none, text]: Python's None, or a str.  An entry is a function whose     *)
(* DOMAIN is the set of keys present (a dict).  A rule body is a record     *)
(* whose DOMAIN is the set of keys the body declares, so that Python's      *)
(* `'from' in config` is  "from" \in DOMAIN config.  A rule item is the     *)
(* sequence of its (destination field, rule body) pairs in dict order.      *)
(***************************************************************************)
EXTENDS Integers, Sequences, FiniteSets, TLC

----------------------------------------------------------------------------
(* Text and values *)

Max(S) == CHOOSE m \in S : \A n \in S : n <= m

\* The characters of the modelled texts; "X" is the upper case of "x".
Chars == {"x", "X", "a", "b", " "}

\* Case folding of re.I on the modelled characters.
Lower(c) == IF c = "X" THEN "x" ELSE c

\* Python's None, and a str value.
None == [none |-> TRUE, text |-> <<>>]

Str(t) == [none |-> FALSE, text |-> t]

\* Python truthiness of a field value: `not field_value`.
Falsy(v) == v.none \/ v.text = <<>>

\* str.strip(): drop leading and trailing whitespace.
RECURSIVE LStrip(_)
LStrip(t) == IF t # <<>> /\ Head(t) = " " THEN LStrip(Tail(t)) ELSE t

RECURSIVE RStrip(_)
RStrip(t) ==
    IF t # <<>> /\ t[Len(t)] = " " THEN RStrip(SubSeq(t, 1, Len(t) - 1)) ELSE t

Strip(t) == RStrip(LStrip(t))

\* sep.join(parts)
RECURSIVE Join(_, _)
Join(parts, sep) ==
    IF parts = <<>> THEN <<>>
    ELSE IF Len(parts) = 1 THEN parts[1]
    ELSE parts[1] \o sep \o Join(Tail(parts), sep)

----------------------------------------------------------------------------
(* Regular expressions (the subset of Python's re the rules below use).     *)
(* A pattern is [alts, ngroups]: top-level alternatives tried in order.  An *)
(* alternative is [bol, eol, elems, groups]: optional ^ and $ anchors, a    *)
(* sequence of elements [cls, q] (a set of lower-case characters with a     *)
(* greedy quantifier "1", "?", "*" or "+"), and capturing groups            *)
(* [no, from, to] spanning elements from..to.  Positions are 1-based.       *)

\* How many consecutive characters of t, from pos on, are in cls.
RECURSIVE Run(_, _, _)
Run(cls, t, pos) ==
    IF pos <= Len(t) /\ Lower(t[pos]) \in cls THEN 1 + Run(cls, t, pos + 1) ELSE 0

\* Backtracking match of elements k.. of alt at pos: <<>> when it fails,
\* else <<path>>, path[i] the position where element k+i-1 starts and the
\* last one the end of the match.  A greedy quantifier takes the largest
\* count the rest of the pattern accepts.  mustEnd is the least end position
\* allowed (sre's must_advance rejects an empty match at the search start).
RECURSIVE ElemPath(_, _, _, _, _)
ElemPath(alt, k, t, pos, mustEnd) ==
    IF k > Len(alt.elems)
    THEN IF (alt.eol => pos = Len(t) + 1) /\ pos >= mustEnd THEN << <<pos>> >> ELSE <<>>
    ELSE LET e == alt.elems[k]
             run == Run(e.cls, t, pos)
             lo == IF e.q \in {"1", "+"} THEN 1 ELSE 0
             hi == IF e.q \in {"1", "?"} THEN (IF run > 0 THEN 1 ELSE 0) ELSE run
             good == {c \in lo..hi : ElemPath(alt, k + 1, t, pos + c, mustEnd) # <<>>}
         IN  IF good = {} THEN <<>>
             ELSE << <<pos>> \o ElemPath(alt, k + 1, t, pos + Max(good), mustEnd)[1] >>

AltPath(alt, t, st, mustEnd) ==
    IF alt.bol /\ st # 1 THEN <<>> ELSE ElemPath(alt, 1, t, st, mustEnd)

\* The groups of pattern p after alternative a matched along path: a group of
\* another alternative did not take part (None in match.groups()).
GroupsOf(p, a, path, t) ==
    [g \in 1..p.ngroups |->
        IF \E gr \in p.alts[a].groups : gr.no = g
        THEN LET gr == CHOOSE gr \in p.alts[a].groups : gr.no = g
             IN  Str(SubSeq(t, path[gr.from], path[gr.to + 1] - 1))
        ELSE None]

NoMatch == [matched |-> FALSE, start |-> 0, end |-> 0, groups |-> <<>>]

\* The match object of the first alternative that has a path (paths[a] is
\* the outcome of alternative a at st).
FirstAlt(p, t, st, paths) ==
    LET ps == paths
        hits == {a \in 1..Len(p.alts) : ps[a] # <<>>}
    IN  IF hits = {} THEN NoMatch
        ELSE LET a == CHOOSE a \in hits : \A b \in hits : a <= b
             IN  [matched |-> TRUE, start |-> st, end |-> ps[a][1][Len(ps[a][1])],
                  groups |-> GroupsOf(p, a, ps[a][1], t)]

\* pattern.match at position st.
MatchAt(p, t, st, mustEnd) ==
    FirstAlt(p, t, st, [a \in 1..Len(p.alts) |-> AltPath(p.alts[a], t, st, mustEnd)])

\* The leftmost of the matches tried at each start position.
Leftmost(tries) ==
    LET tr == tries
        hits == {st \in DOMAIN tr : tr[st].matched}
    IN  IF hits = {} THEN NoMatch
        ELSE tr[CHOOSE st \in hits : \A u \in hits : st <= u]

\* re.search from position from on.
ReSearchFrom(p, t, from, mustAdvance) ==
    Leftmost([st \in from..(Len(t) + 1) |->
                 MatchAt(p, t, st, IF mustAdvance /\ st = from THEN st + 1 ELSE st)])

\* re.search(pattern, text, re.I | re.U)
ReSearch(p, t) == ReSearchFrom(p, t, 1, FALSE)

\* A replacement template is a sequence of [ref, ch]: the literal ch when
\* ref = 0, else the back-reference \ref (empty when the group took no part).
RECURSIVE Expand(_, _)
Expand(fmt, m) ==
    IF fmt = <<>> THEN <<>>
    ELSE (IF Head(fmt).ref = 0 THEN <<Head(fmt).ch>>
          ELSE IF m.groups[Head(fmt).ref].none THEN <<>>
          ELSE m.groups[Head(fmt).ref].text) \o Expand(Tail(fmt), m)

\* regexp.sub(format, text): every non-overlapping match, left to right.
\* SubFrom searches from i on; SubMatch copies the text before match m and
\* its replacement and goes on after it (an empty match must advance).
RECURSIVE SubFrom(_, _, _, _, _)
SubMatch(p, fmt, t, i, m) ==
    LET mo == m
    IN  IF ~mo.matched THEN SubSeq(t, i, Len(t))
        ELSE SubSeq(t, i, mo.start - 1) \o Expand(fmt, mo)
                 \o SubFrom(p, fmt, t, mo.end, mo.end = mo.start)

SubFrom(p, fmt, t, i, mustAdvance) ==
    SubMatch(p, fmt, t, i, ReSearchFrom(p, t, i, mustAdvance))

ReSub(p, fmt, t) == SubFrom(p, fmt, t, 1, FALSE)

----------------------------------------------------------------------------
(* The patterns and templates the modelled configurations use *)

\* The lower-case characters `.` accepts (every modelled character folds
\* into this set; no text holds a newline).
AnyChar == {"x", "a", "b", " "}

Elem(cls, q) == [cls |-> cls, q |-> q]

Group(no, from, to) == [no |-> no, from |-> from, to |-> to]

\* extract: 'x(.*)'
ExtractTail ==
    [alts |-> << [bol |-> FALSE, eol |-> FALSE,
                  elems |-> <<Elem({"x"}, "1"), Elem(AnyChar, "*")>>,
                  groups |-> {Group(1, 2, 2)}] >>,
     ngroups |-> 1]

\* extract: '(a)(b)|(b)'
ExtractPair ==
    [alts |-> << [bol |-> FALSE, eol |-> FALSE,
                  elems |-> <<Elem({"a"}, "1"), Elem({"b"}, "1")>>,
                  groups |-> {Group(1, 1, 1), Group(2, 2, 2)}],
                 [bol |-> FALSE, eol |-> FALSE,
                  elems |-> <<Elem({"b"}, "1")>>,
                  groups |-> {Group(3, 1, 1)}] >>,
     ngroups |-> 3]

\* extract: '(a+)'
ExtractAs ==
    [alts |-> << [bol |-> FALSE, eol |-> FALSE,
                  elems |-> <<Elem({"a"}, "+")>>,
                  groups |-> {Group(1, 1, 1)}] >>,
     ngroups |-> 1]

\* replace: {regexp: 'x', format: 'a'}
ReplaceX ==
    [regexp |-> [alts |-> << [bol |-> FALSE, eol |-> FALSE,
                              elems |-> <<Elem({"x"}, "1")>>,
                              groups |-> {}] >>,
                 ngroups |-> 0],
     format |-> << [ref |-> 0, ch |-> "a"] >>]

\* replace: {regexp: '(a)(b)', format: '\2\1'}
ReplaceSwap ==
    [regexp |-> [alts |-> << [bol |-> FALSE, eol |-> FALSE,
                              elems |-> <<Elem({"a"}, "1"), Elem({"b"}, "1")>>,
                              groups |-> {Group(1, 1, 1), Group(2, 2, 2)}] >>,
                 ngroups |-> 2],
     format |-> << [ref |-> 2, ch |-> ""], [ref |-> 1, ch |-> ""] >>]

\* replace: {regexp: ' *b$', format: ''}
ReplaceDrop ==
    [regexp |-> [alts |-> << [bol |-> FALSE, eol |-> TRUE,
                              elems |-> <<Elem({" "}, "*"), Elem({"b"}, "1")>>,
                              groups |-> {}] >>,
                 ngroups |-> 0],
     format |-> <<>>]

\* replace: {regexp: 'b*|a', format: 'x'}  (matches the empty string)
ReplaceNullable ==
    [regexp |-> [alts |-> << [bol |-> FALSE, eol |-> FALSE,
                              elems |-> <<Elem({"b"}, "*")>>,
                              groups |-> {}],
                             [bol |-> FALSE, eol |-> FALSE,
                              elems |-> <<Elem({"a"}, "1")>>,
                              groups |-> {}] >>,
                 ngroups |-> 0],
     format |-> << [ref |-> 0, ch |-> "x"] >>]

----------------------------------------------------------------------------
(* Manipulate.process: one (destination field, rule body) pair *)

\* entry.get(f)
Get(entry, f) == IF f \in DOMAIN entry THEN entry[f] ELSE None

\* entry[f] = v
Put(entry, f, v) == [k \in DOMAIN entry \cup {f} |-> IF k = f THEN v ELSE entry[k]]

\* del entry[f]
Del(entry, f) == [k \in DOMAIN entry \ {f} |-> entry[k]]

\* config.get('remove'): a missing key and False are both falsy.
RemoveSet(config) == "remove" \in DOMAIN config /\ config.remove

\* The source field of a pair: config['from'] when declared, else the
\* destination field itself.
FromField(field, config) == IF "from" \in DOMAIN config THEN config.from ELSE field

\* config.get('separator', ' ')
Separator(config) ==
    IF "separator" \in DOMAIN config THEN config.separator ELSE <<" ">>

\* The texts of the groups of a match that are not None, in order.
RECURSIVE GroupTexts(_)
GroupTexts(groups) ==
    IF groups = <<>> THEN <<>>
    ELSE (IF Head(groups).none THEN <<>> ELSE <<Head(groups).text>>)
             \o GroupTexts(Tail(groups))

\* Lines 132-135: after a match the non-None groups joined by the separator
\* and stripped; the value itself when the pattern did not match.
Extracted(config, v, m) ==
    LET mo == m
    IN  IF mo.matched THEN Str(Strip(Join(GroupTexts(mo.groups), Separator(config))))
        ELSE v

\* The extract operation on a non-empty value.
ExtractValue(config, v) == Extracted(config, v, ReSearch(config.extract, v.text))

\* The replace operation on a non-empty value: regexp.sub(format, value).strip()
ReplaceValue(config, v) ==
    Str(Strip(ReSub(config.replace.regexp, config.replace.format, v.text)))

\* The outcome of one pass of the inner loop of process for a pair (field,
\* config): the entry afterwards, whether the pass set `modified`, the value
\* computed, and how the pass ended:
\*   "removed" / "remove_absent"  remove was set (line 121), the field was / was not present
\*   "cannot_extract"             extract on a missing or empty source (line 128)
\*   "cannot_replace"             replace on a missing or empty value (line 139)
\*   "KeyError"                   entry[field] read at line 147 with the key missing
\*   "assigned"                   line 150 reached
Untouched(entry, how) ==
    [entry |-> entry, modified |-> FALSE, outcome |-> how, value |-> None]

\* Remove with `modified = True` moved out of the `if field in entry`.
RemoveAlwaysFlags(entry, field) ==
    [entry |-> Del(entry, field), modified |-> TRUE, outcome |-> "removed", value |-> None]

\* Lines 121-125: remove.
Remove(entry, field) ==
    IF field \in DOMAIN entry
    THEN [entry |-> Del(entry, field), modified |-> TRUE, outcome |-> "removed",
          value |-> None]
    ELSE Untouched(entry, "remove_absent")

\* Assign with line 147 reduced to `entry[field] != field_value`: a rename
\* counts as a change only when the destination held another value.
AssignIgnoresRename(entry, field, from_field, value) ==
    LET v == value
    IN  IF field \notin DOMAIN entry
        THEN [entry |-> entry, modified |-> FALSE, outcome |-> "KeyError", value |-> v]
        ELSE [entry |-> Put(entry, field, v),
              modified |-> (entry[field] # v),
              outcome |-> "assigned", value |-> v]

\* Assign with the operands of line 147 swapped: entry[field] is read first.
AssignReadsFirst(entry, field, from_field, value) ==
    LET v == value
    IN  IF field \notin DOMAIN entry
        THEN [entry |-> entry, modified |-> FALSE, outcome |-> "KeyError", value |-> v]
        ELSE [entry |-> Put(entry, field, v),
              modified |-> (entry[field] # v \/ from_field # field),
              outcome |-> "assigned", value |-> v]

\* Assign that moves instead of copying: a rename deletes its source field.
AssignMoves(entry, field, from_field, value) ==
    LET v == value
    IN  IF from_field = field /\ field \notin DOMAIN entry
        THEN [entry |-> entry, modified |-> FALSE, outcome |-> "KeyError", value |-> v]
        ELSE [entry |-> Put(Del(entry, from_field), field, v),
              modified |-> (from_field # field \/ entry[field] # v),
              outcome |-> "assigned", value |-> v]

\* Lines 147-150: change detection and assignment.  entry[field] is read only
\* when from_field = field, and raises KeyError when the key is missing.
Assign(entry, field, from_field, value) ==
    LET v == value
    IN  IF from_field = field /\ field \notin DOMAIN entry
        THEN [entry |-> entry, modified |-> FALSE, outcome |-> "KeyError", value |-> v]
        ELSE [entry |-> Put(entry, field, v),
              modified |-> (from_field # field \/ entry[field] # v),
              outcome |-> "assigned", value |-> v]

\* ReplaceAndAssign without the check of line 139.
ReplaceUnchecked(entry, field, config, extracted) ==
    LET v == extracted
    IN  IF "replace" \in DOMAIN config
        THEN Assign(entry, field, FromField(field, config), ReplaceValue(config, v))
        ELSE Assign(entry, field, FromField(field, config), v)

\* Lines 138-150: replace, on the value extract left, then the assignment.
ReplaceAndAssign(entry, field, config, extracted) ==
    LET v == extracted
    IN  IF "replace" \in DOMAIN config
        THEN IF Falsy(v) THEN Untouched(entry, "cannot_replace")
             ELSE Assign(entry, field, FromField(field, config), ReplaceValue(config, v))
        ELSE Assign(entry, field, FromField(field, config), v)

\* The two blocks in the other order: replace on the value read, extract on
\* what replace left.
ReplaceThenExtract(entry, field, config, field_value) ==
    LET v == field_value
        replaced == IF "replace" \in DOMAIN config /\ ~Falsy(v)
                    THEN ReplaceValue(config, v) ELSE v
    IN  IF "replace" \in DOMAIN config /\ Falsy(v) THEN Untouched(entry, "cannot_replace")
        ELSE IF "extract" \in DOMAIN config
        THEN IF Falsy(replaced) THEN Untouched(entry, "cannot_extract")
             ELSE Assign(entry, field, FromField(field, config),
                         ExtractValue(config, replaced))
        ELSE Assign(entry, field, FromField(field, config), replaced)

\* Lines 127-150: extract, on the value read from the source field, then the rest.
ExtractAndOn(entry, field, config, field_value) ==
    LET v == field_value
    IN  IF "extract" \in DOMAIN config
        THEN IF Falsy(v) THEN Untouched(entry, "cannot_extract")
             ELSE ReplaceAndAssign(entry, field, config, ExtractValue(config, v))
        ELSE ReplaceAndAssign(entry, field, config, v)

\* FieldStep whose remove deletes the source field: `del entry[from_field]`.
FieldStepRemovesSource(entry, field, config) ==
    IF RemoveSet(config) THEN Remove(entry, FromField(field, config))
    ELSE ExtractAndOn(entry, field, config, Get(entry, FromField(field, config)))

\* Lines 112-150: one pass of the inner loop.
FieldStep(entry, field, config) ==
    IF RemoveSet(config) THEN Remove(entry, field)
    ELSE ExtractAndOn(entry, field, config, Get(entry, FromField(field, config)))

\* A pair of an item: `for field, config in item.items()`.
Pair(field, config) == [field |-> field, config |-> config]

\* The loops of process from pair k of item i on, over the running state
\* [entry, modified, raised]; an exception ends the call where it is raised.
RECURSIVE ProcessFrom(_, _, _, _)
AfterStep(st, jobs, i, k, r) ==
    LET res == r
    IN  ProcessFrom([entry |-> res.entry,
                     modified |-> (st.modified \/ res.modified),
                     raised |-> (res.outcome = "KeyError")], jobs, i, k + 1)

ProcessFrom(st, jobs, i, k) ==
    IF st.raised \/ i > Len(jobs) THEN st
    ELSE IF k > Len(jobs[i]) THEN ProcessFrom(st, jobs, i + 1, 1)
    ELSE AfterStep(st, jobs, i, k, FieldStep(st.entry, jobs[i][k].field, jobs[i][k].config))

\* Manipulate.process(entry, jobs): the entry as the call leaves it, the
\* value returned, and whether the call raised instead of returning.
process(entry, jobs) ==
    ProcessFrom([entry |-> entry, modified |-> FALSE, raised |-> FALSE], jobs, 1, 1)

----------------------------------------------------------------------------
(* Manipulate.on_task_start: the jobs of each phase *)

Phases == {"metainfo", "filter", "modify"}

\* item_config.get('phase', 'metainfo')
PhaseOf(item_config) ==
    IF "phase" \in DOMAIN item_config THEN item_config.phase ELSE "metainfo"

\* The inner loop of on_task_start: the item is appended once for each of
\* its values, to the list of that value's phase.
RECURSIVE AppendItem(_, _, _)
AppendItem(pj, item, k) ==
    IF k > Len(item) THEN pj
    ELSE AppendItem([pj EXCEPT ![PhaseOf(item[k].config)] = Append(@, item)], item, k + 1)

RECURSIVE CompileFrom(_, _, _)
CompileFrom(pj, config, i) ==
    IF i > Len(config) THEN pj
    ELSE CompileFrom(AppendItem(pj, config[i], 1), config, i + 1)

\* self.phase_jobs after on_task_start(task, config)
CompileJobs(config) ==
    CompileFrom([filter |-> <<>>, metainfo |-> <<>>, modify |-> <<>>], config, 1)

\* A phase handler's `sum(self.process(entry, jobs) for entry in list)`:
\* the entries as the handler leaves them, the count of modified entries and
\* whether a process call raised (the handler ends there: the entries before
\* it stay processed, the rest are not reached).
RECURSIVE RunFrom(_, _, _)
AfterCall(st, jobs, n, r) ==
    LET res == r
    IN  RunFrom([list |-> [st.list EXCEPT ![n] = res.entry],
                 count |-> st.count + (IF res.modified /\ ~res.raised THEN 1 ELSE 0),
                 raised |-> res.raised], jobs, n + 1)

RunFrom(st, jobs, n) ==
    IF st.raised \/ n > Len(st.list) THEN st
    ELSE AfterCall(st, jobs, n, process(st.list[n], jobs))

RunPhase(list, jobs) == RunFrom([list |-> list, count |-> 0, raised |-> FALSE], jobs, 1)

----------------------------------------------------------------------------
(* Inputs: fields, texts, entries and rule items *)

Fields == {"title", "name", "year"}

\* Bounds of the model.
MaxRules == 2

MaxEntries == 2

MaxJobs == 2

MaxRuns == 2

\* The initial texts of each field.
FieldTexts ==
    [title |-> {<<>>, <<"x">>, <<"x", "a", "b">>, <<"X", "a", " ", "b">>},
     name  |-> {<<"a", "b">>, <<"b">>},
     year  |-> {<<"x">>}]

AllTexts == UNION {FieldTexts[f] : f \in Fields}

\* The entries process is tried on: any subset of the fields present.
InputEntries ==
    {e \in UNION {[D -> {Str(t) : t \in AllTexts}] : D \in SUBSET Fields} :
        \A f \in DOMAIN e : e[f].text \in FieldTexts[f]}

\* One-pair rule items, e.g.  - title: {from: name}
Rule(field, config) == <<Pair(field, config)>>

\* The rule bodies without a phase key: plain, renames, removes (alone, and
\* with extract and from declared too), extract and replace alone and together.
PlainBody == <<>>

RuleItems ==
    { Rule("title", PlainBody),
      Rule("title", [from |-> "name"]),
      Rule("name", [from |-> "year"]),
      Rule("name", [from |-> "title", remove |-> FALSE]),
      Rule("title", [remove |-> TRUE]),
      Rule("title", [remove |-> TRUE, from |-> "name", extract |-> ExtractTail,
                     replace |-> ReplaceX]),
      Rule("title", [extract |-> ExtractTail]),
      Rule("title", [extract |-> ExtractTail, replace |-> ReplaceX]),
      Rule("title", [extract |-> ExtractAs]),
      Rule("title", [replace |-> ReplaceSwap]),
      Rule("name", [replace |-> ReplaceDrop]),
      Rule("name", [from |-> "title", replace |-> ReplaceX]),
      Rule("name", [from |-> "title", extract |-> ExtractPair, separator |-> <<"x">>]),
      Rule("year", [from |-> "title", extract |-> ExtractPair, replace |-> ReplaceNullable]),
      <<Pair("year", [extract |-> ExtractTail]), Pair("title", [from |-> "year"])>> }

\* The configured items of a task, with phase keys: one-pair items of each
\* phase, an item whose two pairs declare different phases, an item whose two
\* pairs have the same (default) phase, and the empty item `{}`.
ConfigItems ==
    { Rule("title", [extract |-> ExtractTail]),
      Rule("title", [phase |-> "metainfo"]),
      Rule("name", [phase |-> "filter", from |-> "title"]),
      Rule("name", [phase |-> "filter", replace |-> ReplaceDrop]),
      Rule("title", [phase |-> "modify", remove |-> TRUE, from |-> "name"]),
      <<Pair("title", [phase |-> "filter", remove |-> TRUE]),
        Pair("name", [from |-> "title"])>>,
      <<Pair("title", [extract |-> ExtractTail]), Pair("name", [from |-> "title"])>>,
      <<>> }

\* The entries of a task.
TaskEntries ==
    { [title |-> Str(<<"x", "X", "a", "b">>), name |-> Str(<<"a", "b">>)],
      [title |-> Str(<<"x", "a", "b">>)],
      [name |-> Str(<<"b">>)] }

\* The entries of task.rejected: one with both fields and one without title.
RejectedEntries ==
    { [title |-> Str(<<"x", "X", "a", "b">>), name |-> Str(<<"a", "b">>)],
      [name |-> Str(<<"b">>)] }

MaxRejected == 1

\* Sequences of m..n elements of S.
SeqsOf(S, m, n) == UNION {[1..k -> S] : k \in m..n}

SeqsUpTo(S, n) == SeqsOf(S, 1, n)

----------------------------------------------------------------------------
(* State *)

VARIABLES
    config,       \* the validated manipulate configuration: a sequence of items
    phase_jobs,   \* self.phase_jobs
    entries,      \* task.entries
    rejected,     \* task.rejected
    hpc,          \* the phase the host dispatches next, "done" or "aborted"
    reported,     \* the count of the last 'Modified %d entries.' (-1: none yet)
    the_entry,    \* the entry of a process call
    the_jobs,     \* the jobs of that call
    item_ix,      \* the item the outer loop of process is at
    field_ix,     \* the pair of that item the inner loop is at
    modified,     \* the local `modified` of process
    ppc,          \* "loop", "returned" or "raised"
    run,          \* how many process calls the entry has had
    after_prev,   \* the entry as the previous call left it
    trace         \* what each pass of this call found and did

vars == <<config, phase_jobs, entries, rejected, hpc, reported,
          the_entry, the_jobs, item_ix, field_ix, modified, ppc, run, after_prev, trace>>

taskVars == <<config, phase_jobs, entries, rejected, hpc, reported>>

callVars == <<the_entry, the_jobs, item_ix, field_ix, modified, ppc, run, after_prev, trace>>

NoEntry == <<>>

----------------------------------------------------------------------------
(* SpecProcess: one entry, one job list, process called MaxRuns times *)

InitProcess ==
    /\ the_entry \in InputEntries
    /\ the_jobs \in SeqsUpTo(RuleItems, MaxJobs)
    /\ item_ix = 1
    /\ field_ix = 1
    /\ modified = FALSE
    /\ ppc = "loop"
    /\ run = 1
    /\ after_prev = NoEntry
    /\ trace = <<>>
    /\ config = <<>>
    /\ phase_jobs = CompileJobs(<<>>)
    /\ entries = <<>>
    /\ rejected = <<>>
    /\ hpc = "done"
    /\ reported = -1

\* One pass of the inner loop (lines 111-150) for the pair the loops are at,
\* r being what the pass does to the entry.
StepTo(pair, last, r) ==
    LET res == r
    IN  /\ the_entry' = res.entry
        /\ modified' = (modified \/ res.modified)
        /\ ppc' = IF res.outcome = "KeyError" THEN "raised" ELSE "loop"
        /\ item_ix' = IF last THEN item_ix + 1 ELSE item_ix
        /\ field_ix' = IF last THEN 1 ELSE field_ix + 1
        /\ trace' = Append(trace, [field |-> pair.field, config |-> pair.config,
                                   before |-> the_entry, was_modified |-> modified,
                                   outcome |-> res.outcome, value |-> res.value])

ProcessStep ==
    /\ ppc = "loop"
    /\ item_ix <= Len(the_jobs)
    /\ StepTo(the_jobs[item_ix][field_ix], field_ix = Len(the_jobs[item_ix]),
              FieldStep(the_entry, the_jobs[item_ix][field_ix].field,
                        the_jobs[item_ix][field_ix].config))
    /\ UNCHANGED <<the_jobs, run, after_prev>>
    /\ UNCHANGED taskVars

\* `return modified` (line 151)
ProcessReturn ==
    /\ ppc = "loop"
    /\ item_ix > Len(the_jobs)
    /\ ppc' = "returned"
    /\ UNCHANGED <<the_entry, the_jobs, item_ix, field_ix, modified, run, after_prev, trace>>
    /\ UNCHANGED taskVars

\* The caller runs process again on the same entry with the same jobs.
ProcessAgain ==
    /\ ppc = "returned"
    /\ run < MaxRuns
    /\ run' = run + 1
    /\ after_prev' = the_entry
    /\ item_ix' = 1
    /\ field_ix' = 1
    /\ modified' = FALSE
    /\ ppc' = "loop"
    /\ trace' = <<>>
    /\ UNCHANGED <<the_entry, the_jobs>>
    /\ UNCHANGED taskVars

NextProcess == ProcessStep \/ ProcessReturn \/ ProcessAgain

SpecProcess == InitProcess /\ [][NextProcess]_vars

----------------------------------------------------------------------------
(* Spec: a task run.  The host calls on_task_start and then the handlers of *)
(* the metainfo, filter and modify phases, in that order; an exception out  *)
(* of a handler aborts the task.                                            *)

Init ==
    /\ config \in SeqsUpTo(ConfigItems, MaxRules)
    /\ entries \in SeqsUpTo(TaskEntries, MaxEntries)
    /\ rejected \in SeqsOf(RejectedEntries, 0, MaxRejected)
    /\ phase_jobs = CompileJobs(<<>>)
    /\ hpc = "start"
    /\ reported = -1
    /\ the_entry = NoEntry
    /\ the_jobs = <<>>
    /\ item_ix = 1
    /\ field_ix = 1
    /\ modified = FALSE
    /\ ppc = "returned"
    /\ run = 0
    /\ after_prev = NoEntry
    /\ trace = <<>>

on_task_start ==
    /\ hpc = "start"
    /\ phase_jobs' = CompileJobs(config)
    /\ hpc' = "metainfo"
    /\ UNCHANGED <<config, entries, rejected, reported>>
    /\ UNCHANGED callVars

\* The body of a phase handler whose jobs are not empty, r being the outcome
\* of its process calls over task.entries (metainfo) or over
\* task.entries + task.rejected (filter, modify: withRejected).
Handled(r, next, withRejected) ==
    LET res == r
    IN  /\ entries' = SubSeq(res.list, 1, Len(entries))
        /\ rejected' = IF withRejected
                        THEN SubSeq(res.list, Len(entries) + 1, Len(res.list))
                        ELSE rejected
        /\ hpc' = IF res.raised THEN "aborted" ELSE next
        /\ reported' = IF res.raised THEN reported ELSE res.count

on_task_metainfo ==
    /\ hpc = "metainfo"
    /\ IF phase_jobs.metainfo = <<>>
       THEN hpc' = "filter" /\ UNCHANGED <<entries, rejected, reported>>
       ELSE Handled(RunPhase(entries, phase_jobs.metainfo), "filter", FALSE)
    /\ UNCHANGED <<config, phase_jobs>>
    /\ UNCHANGED callVars

on_task_filter ==
    /\ hpc = "filter"
    /\ IF phase_jobs.filter = <<>>
       THEN hpc' = "modify" /\ UNCHANGED <<entries, rejected, reported>>
       ELSE Handled(RunPhase(entries \o rejected, phase_jobs.filter), "modify", TRUE)
    /\ UNCHANGED <<config, phase_jobs>>
    /\ UNCHANGED callVars

on_task_modify ==
    /\ hpc = "modify"
    /\ IF phase_jobs.modify = <<>>
       THEN hpc' = "done" /\ UNCHANGED <<entries, rejected, reported>>
       ELSE Handled(RunPhase(entries \o rejected, phase_jobs.modify), "done", TRUE)
    /\ UNCHANGED <<config, phase_jobs>>
    /\ UNCHANGED callVars

Next == on_task_start \/ on_task_metainfo \/ on_task_filter \/ on_task_modify

Spec == Init /\ [][Next]_vars

----------------------------------------------------------------------------
(* Properties of process, checked under SpecProcess.  trace[n] records pass *)
(* n of the current call: its pair, the entry and `modified` before it, how *)
(* it ended and the value it computed.  The entry and `modified` after the  *)
(* last recorded pass are the_entry and modified.                           *)

LastPass == trace[Len(trace)]

\* The entry after pass n of the current call.
EntryAfter(n) == IF n < Len(trace) THEN trace[n + 1].before ELSE the_entry

\* The pairs of a job list in evaluation order.
RECURSIVE PairsOf(_)
PairsOf(jobs) == IF jobs = <<>> THEN <<>> ELSE Head(jobs) \o PairsOf(Tail(jobs))

\* The value a pass read from its source field.
RawOf(pass) == Get(pass.before, FromField(pass.field, pass.config))

\* The value that reaches the replace block of a pass whose source value is
\* not empty.
ReachesReplace(pass) ==
    IF "extract" \in DOMAIN pass.config THEN ExtractValue(pass.config, RawOf(pass))
    ELSE RawOf(pass)

\* C2: process never raises: no call ends in an exception, and a pass that
\* reaches the change detection with its destination missing counts the
\* field as changed and assigns it.
C2_NeverRaises ==
    /\ ppc # "raised"
    /\ \A n \in 1..Len(trace) :
          (trace[n].outcome \notin {"removed", "remove_absent", "cannot_extract",
                                    "cannot_replace"}
             /\ trace[n].field \notin DOMAIN trace[n].before)
          => (trace[n].field \in DOMAIN EntryAfter(n) /\ modified)

\* C3: after a pass whose body sets remove the destination field is absent,
\* nothing else of the entry has changed (no extract, replace or assignment
\* was made, whatever else the body declares), and the pass marked the entry
\* modified exactly when the field was present before it.
RemoveHolds(pass) ==
    /\ pass.field \notin DOMAIN the_entry
    /\ the_entry = Del(pass.before, pass.field)
    /\ modified = (pass.was_modified \/ pass.field \in DOMAIN pass.before)
    /\ ppc # "raised"

C3_Remove == (trace # <<>> /\ RemoveSet(LastPass.config)) => RemoveHolds(LastPass)

\* A remove pass on a present field whose body also declares from, extract
\* and replace, with a source value those would have worked on.
C3_Witness ==
    /\ trace # <<>>
    /\ RemoveSet(LastPass.config)
    /\ {"from", "extract", "replace"} \subseteq DOMAIN LastPass.config
    /\ ~Falsy(RawOf(LastPass))
    /\ LastPass.field \in DOMAIN LastPass.before
    /\ ~LastPass.was_modified

\* C4: a pass (without remove) that reaches extract, or replace, with an
\* absent or empty value leaves the entry as it was, does not mark it
\* modified, and the loop goes on with the next pair.
MissingSource(pass) ==
    /\ ~RemoveSet(pass.config)
    /\ \/ "extract" \in DOMAIN pass.config /\ Falsy(RawOf(pass))
       \/ "replace" \in DOMAIN pass.config
            /\ (Falsy(RawOf(pass)) \/ Falsy(ReachesReplace(pass)))

\* How many pairs come before pair k of item i.
RECURSIVE PairsBefore(_, _, _)
PairsBefore(jobs, i, k) ==
    IF i = 1 THEN k - 1 ELSE Len(jobs[i - 1]) + PairsBefore(jobs, i - 1, k)

SkipHolds(pass) ==
    /\ the_entry = pass.before
    /\ modified = pass.was_modified
    /\ ppc # "raised"
    /\ Len(trace) = PairsBefore(the_jobs, item_ix, field_ix)

C4_MissingSource == (trace # <<>> /\ MissingSource(LastPass)) => SkipHolds(LastPass)

\* A pass with extract and replace whose extract matched a non-empty source
\* and left the empty string, on a destination that is present, after an
\* earlier pass has set `modified`.
C4_Witness ==
    /\ trace # <<>>
    /\ LastPass.outcome = "cannot_replace"
    /\ "extract" \in DOMAIN LastPass.config
    /\ ~Falsy(RawOf(LastPass))
    /\ LastPass.field \in DOMAIN LastPass.before
    /\ LastPass.was_modified
    /\ ppc = "returned"

\* C7: process returns true exactly when some pass removed a field that was
\* present, or reached the assignment with a source field other than the
\* destination, or reached it with the destination holding another value
\* than the one computed; and every pass that reaches the assignment sets
\* the destination to the computed value.
Detected(pass) ==
    \/ RemoveSet(pass.config) /\ pass.field \in DOMAIN pass.before
    \/ /\ pass.outcome = "assigned"
       /\ \/ FromField(pass.field, pass.config) # pass.field
          \/ pass.before[pass.field] # pass.value

C7_ReturnValue ==
    /\ ppc = "returned" => (modified <=> \E n \in 1..Len(trace) : Detected(trace[n]))
    /\ \A n \in 1..Len(trace) :
          trace[n].outcome = "assigned"
          => (trace[n].field \in DOMAIN EntryAfter(n)
              /\ EntryAfter(n)[trace[n].field] = trace[n].value)

\* A call that returned false although one pass reassigned its field (the
\* same value) and another was skipped for a missing source.
C7_Witness ==
    /\ ppc = "returned"
    /\ ~modified
    /\ \E n \in 1..Len(trace) : trace[n].outcome = "assigned"
    /\ \E n \in 1..Len(trace) : trace[n].outcome = "cannot_extract"

\* C8: a pass whose body declares only a from other than the destination
\* marks the entry modified and sets the destination to the value read from
\* the source (None when the source is missing); nothing else changes, the
\* source field included.
RenameOnly(pass) ==
    /\ "from" \in DOMAIN pass.config
    /\ pass.config.from # pass.field
    /\ ~RemoveSet(pass.config)
    /\ "extract" \notin DOMAIN pass.config
    /\ "replace" \notin DOMAIN pass.config

RenameHolds(pass) ==
    /\ modified
    /\ ppc # "raised"
    /\ the_entry = Put(pass.before, pass.field, Get(pass.before, pass.config.from))
    /\ (pass.config.from \in DOMAIN the_entry) = (pass.config.from \in DOMAIN pass.before)

C8_Rename == (trace # <<>> /\ RenameOnly(LastPass)) => RenameHolds(LastPass)

\* A rename as the first pass of a call, onto a destination that already
\* holds the value of the source.
C8_Witness ==
    /\ trace # <<>>
    /\ RenameOnly(LastPass)
    /\ ~LastPass.was_modified
    /\ LastPass.config.from \in DOMAIN LastPass.before
    /\ LastPass.field \in DOMAIN LastPass.before
    /\ LastPass.before[LastPass.field] = LastPass.before[LastPass.config.from]

\* C10: a pass with extract and replace (no remove) on a non-empty source
\* value assigns replace's result on extract's result (on the raw value
\* when extract does not match); when extract leaves the empty string the
\* entry is left as it was.
Both(pass) ==
    /\ ~RemoveSet(pass.config)
    /\ {"extract", "replace"} \subseteq DOMAIN pass.config
    /\ ~Falsy(RawOf(pass))

ExtractFirstHolds(pass, extracted) ==
    LET x == extracted
    IN  IF Falsy(x) THEN the_entry = pass.before /\ modified = pass.was_modified
        ELSE the_entry = Put(pass.before, pass.field, ReplaceValue(pass.config, x))

C10_ExtractThenReplace ==
    (trace # <<>> /\ Both(LastPass))
    => ExtractFirstHolds(LastPass, ExtractValue(LastPass.config, RawOf(LastPass)))

\* Such a pass where the other order would have given another value.
OtherOrder(pass) == ExtractValue(pass.config, ReplaceValue(pass.config, RawOf(pass)))

C10_Witness ==
    /\ trace # <<>>
    /\ Both(LastPass)
    /\ LastPass.outcome = "assigned"
    /\ ReSearch(LastPass.config.extract, RawOf(LastPass).text).matched
    /\ LastPass.value # OtherOrder(LastPass)

\* C6.  No pair of the list sets remove.
NoRemove(jobs) == \A n \in 1..Len(PairsOf(jobs)) : ~RemoveSet(PairsOf(jobs)[n].config)

\* A rule body without its from key: the body works on its own destination.
OnItself(body) == [k \in DOMAIN body \ {"from"} |-> body[k]]

\* The extract and replace of every pair are at a fixed point on the
\* already-transformed text, the text entry e holds in the pair's
\* destination: applied to it they give it back (or are skipped on an
\* absent or empty text).
FixedOn(jobs, e) ==
    \A n \in 1..Len(PairsOf(jobs)) :
        LET pair == PairsOf(jobs)[n]
        IN  DOMAIN pair.config \cap {"extract", "replace"} # {}
            => FieldStep(e, pair.field, OnItself(pair.config)).entry = e

\* No pair reads, through from, a field that a later pair of the list writes.
ReadsAfterWrites(jobs) ==
    \A n \in 1..Len(PairsOf(jobs)) : \A m \in (n + 1)..Len(PairsOf(jobs)) :
        FromField(PairsOf(jobs)[n].field, PairsOf(jobs)[n].config) = PairsOf(jobs)[n].field
        \/ PairsOf(jobs)[m].field # FromField(PairsOf(jobs)[n].field, PairsOf(jobs)[n].config)

SecondRunDone == run >= 2 /\ ppc \in {"returned", "raised"}

\* C6 as stated: without remove and with patterns at a fixed point, a second
\* call of process leaves every field as the first call left it.
C6_Idempotent ==
    (SecondRunDone /\ NoRemove(the_jobs) /\ FixedOn(the_jobs, after_prev))
    => the_entry = after_prev

\* C6 amended: the same, for job lists in which no pair reads through from a
\* field that a later pair writes.
C6_IdempotentInOrder ==
    (SecondRunDone /\ NoRemove(the_jobs) /\ FixedOn(the_jobs, after_prev)
        /\ ReadsAfterWrites(the_jobs))
    => the_entry = after_prev

\* A second call that returned true (a rename is always reported) on a list
\* with an extract on its own destination followed by a rename reading it.
C6_Witness ==
    /\ SecondRunDone
    /\ NoRemove(the_jobs) /\ FixedOn(the_jobs, after_prev) /\ ReadsAfterWrites(the_jobs)
    /\ modified
    /\ Len(trace) = 2
    /\ "extract" \in DOMAIN trace[1].config /\ trace[1].outcome = "assigned"
    /\ FromField(trace[2].field, trace[2].config) = trace[1].field
    /\ trace[2].field # trace[1].field

----------------------------------------------------------------------------
(* Properties of a task run, checked under Spec *)

\* The pairs of the configuration declared for a phase (metainfo when none
\* is declared), in configuration order.
PhasePairs(cfg, phase) == SelectSeq(PairsOf(cfg), LAMBDA pair : PhaseOf(pair.config) = phase)

\* Those pairs as a job list: each pair a job of its own.
PairJobs(cfg, phase) == [n \in 1..Len(PhasePairs(cfg, phase)) |-> <<PhasePairs(cfg, phase)[n]>>]

\* The destination fields of a job list.
Dests(jobs) == {PairsOf(jobs)[n].field : n \in 1..Len(PairsOf(jobs))}

\* Field f has the same presence and value in entries a and b.
SameField(f, a, b) == (f \in DOMAIN a) = (f \in DOMAIN b) /\ Get(a, f) = Get(b, f)

\* The destinations only pairs of other phases declare.
OtherPhaseOnly(cfg, phase) == Dests(cfg) \ Dests(PairJobs(cfg, phase))

\* A dispatch of `phase` over the entries `before` evaluated only pairs
\* declared for that phase, and left the destinations that only pairs of
\* other phases declare alone.
Isolated(phase, before, after) ==
    /\ \A k \in 1..Len(PairsOf(phase_jobs[phase])) :
          PhaseOf(PairsOf(phase_jobs[phase])[k].config) = phase
    /\ after = RunPhase(before, phase_jobs[phase]).list
    /\ \A n \in 1..Len(before) : \A f \in OtherPhaseOnly(config, phase) :
          SameField(f, before[n], after[n])

\* C1: a dispatch of one phase evaluates only the pairs declared for that
\* phase; the pairs of other phases are not executed and their destination
\* fields are not written or removed, also for an item whose pairs declare
\* different phases.
C1_PhaseIsolation ==
    [][ /\ on_task_metainfo => Isolated("metainfo", entries, entries')
        /\ on_task_filter => Isolated("filter", entries \o rejected, entries' \o rejected')
        /\ on_task_modify => Isolated("modify", entries \o rejected, entries' \o rejected')
      ]_vars

\* C5: after on_task_start the jobs of each phase are exactly the configured
\* rules of that phase, in configuration order, each once.
C5_JobCompilation ==
    hpc # "start" => \A phase \in Phases :
                        PairsOf(phase_jobs[phase]) = PhasePairs(config, phase)

\* C9: a dispatch changes, in any entry, only destination fields of the jobs
\* of its phase; every other field (a from source included) keeps its
\* presence and value; the metainfo dispatch leaves the rejected entries
\* alone; a dispatch of a phase without jobs changes nothing.
Framed(jobs, before, after) ==
    /\ Len(after) = Len(before)
    /\ \A n \in 1..Len(before) :
          \A f \in (DOMAIN before[n] \cup DOMAIN after[n]) \ Dests(jobs) :
              SameField(f, before[n], after[n])
    /\ jobs = <<>> => after = before

C9_Frame ==
    [][ /\ on_task_start => UNCHANGED <<entries, rejected>>
        /\ on_task_metainfo => (Framed(phase_jobs.metainfo, entries, entries')
                                /\ rejected' = rejected)
        /\ on_task_filter => Framed(phase_jobs.filter, entries \o rejected,
                                    entries' \o rejected')
        /\ on_task_modify => Framed(phase_jobs.modify, entries \o rejected,
                                    entries' \o rejected')
      ]_vars

\* After the filter dispatch reported modified entries: an entry holds a
\* field that a filter job reads through from and no filter job writes, and
\* the modify phase has no jobs.
C9_Witness ==
    /\ hpc = "modify"
    /\ reported >= 1
    /\ phase_jobs.filter # <<>>
    /\ phase_jobs.modify = <<>>
    /\ \E n \in 1..Len(entries) : \E k \in 1..Len(PairsOf(phase_jobs.filter)) :
          LET pair == PairsOf(phase_jobs.filter)[k]
          IN  /\ FromField(pair.field, pair.config) \in DOMAIN entries[n]
              /\ FromField(pair.field, pair.config) \notin Dests(phase_jobs.filter)

====
